---- MODULE Spec2Model ----
(***************************************************************************)
(* Campus digital-wallet backend (Express + Mongoose).                     *)
(*                                                                         *)
(* The repository keeps two versions of the server: src/server.js          *)
(* (students, QR receive requests) and src/unnamed/part_000 (students,     *)
(* merchants, payment links).  A deployment runs one of them (both listen  *)
(* on the same port); build says which.  The wallet routes (send,          *)
(* withdraw, upload) are the same in both but for one check of upload.     *)
(*                                                                         *)
(* Every request handler is an async function: it runs without             *)
(* interruption between two awaits and may be interleaved with any other   *)
(* handler at each await (a storage read or write).  A handler is a        *)
(* process slot of proc; each await is one action.  A Mongoose document    *)
(* loaded by a handler is a private copy: save() writes the modified       *)
(* paths of that copy back ($set), whatever the collection holds by then.  *)
(*                                                                         *)
(* Amounts are integers (req.body.amount is not validated by the code, so  *)
(* zero and negative amounts are inputs too).                              *)
(***************************************************************************)
EXTENDS Integers, Sequences, FiniteSets, TLC

\* ------------------------------------------------------------------ bounds
\* Concurrent request handlers.
NProcs == 2
\* Requests of the multi-step handlers started in one behaviour.
MaxOps == 2
\* Largest amount a request carries, of either sign.
MaxAmount == 1

Procs == 1..NProcs
Amounts == (0 - MaxAmount)..MaxAmount
\* Balance of the funded student in the initial state.
InitBalance == MaxAmount
\* The QR receive request and the payment link that can be created (ids
\* are opaque: a Mongo _id, a shortid).
QrIds == {"q1"}
PayIds == {"p1"}

\* Registered students, and one student number nobody registered.
Students == {"u1", "u2"}
StudentNumbers == Students \cup {"u3"}
\* Registered merchants.
MerchantIds == {"m1"}
\* The merchant ids a registration can carry: m2 is not registered yet.
MerchantNumbers == MerchantIds \cup {"m2"}

VARIABLES
    build,            \* the server file that runs: "server.js" or "part_000"
    users,            \* User collection: student number -> document (docs:
                      \* the number of documents stored under the number)
    merchants,        \* Merchant collection: merchant id -> document
    transactions,     \* Transaction collection, in insertion (timestamp) order
    qrRequests,       \* QrCodeTransactionRequest collection: id -> document
    pendingPayments,  \* PendingPayment collection: id -> document
    proc,             \* the request handlers in flight (amount: the amount
                      \* in effect; body: req.body.amount of a QR settle
                      \* call once the amount in effect has replaced it;
                      \* rows: the documents a history query answered with)
    nops,             \* requests started so far
    pre               \* history: the balances and the number of transactions
                      \* when a request last arrived at a server with no
                      \* handler running, and the requests that arrived since
                      \* (that one included)

vars == <<build, users, merchants, transactions, qrRequests, pendingPayments,
          proc, nops, pre>>
db == <<build, users, merchants, transactions, qrRequests, pendingPayments>>

\* ------------------------------------------------------------- documents
\* What findOne / findById returns for no match.
NullDoc == [found |-> FALSE, balance |-> 0]
NullRequest == [found |-> FALSE, to |-> "-", amount |-> 0, status |-> "-"]

\* User.findById(id) / User.findOne({ studentNumber }).
FindUser(id) ==
    IF id \in DOMAIN users /\ users[id].exists
    THEN [found |-> TRUE, balance |-> users[id].balance]
    ELSE NullDoc

\* Merchant.findOne({ merchantId }).
FindMerchant(id) ==
    IF id \in DOMAIN merchants /\ merchants[id].exists
    THEN [found |-> TRUE, balance |-> merchants[id].balance]
    ELSE NullDoc

\* new Transaction({ from, to, amount, type }): timestamp defaults to now,
\* so the collection in timestamp order is the sequence of appends.
Transaction(from, to, amount, type) ==
    [from |-> from, to |-> to, amount |-> amount, type |-> type]

\* A handler that is not running.
Idle ==
    [op |-> "idle", pc |-> "idle", userId |-> "-", to |-> "-", amount |-> 0,
     id |-> "-", sender |-> NullDoc, recipient |-> NullDoc,
     request |-> NullRequest, res |-> "-", rows |-> <<>>, body |-> 0]

\* res.status(...).json(...): the handler has answered.
Reply(p, message) ==
    proc' = [proc EXCEPT ![p].pc = "done", ![p].res = message,
                         ![p].sender = NullDoc, ![p].recipient = NullDoc,
                         ![p].request = NullRequest]

Goto(p, label) ==
    proc' = [proc EXCEPT ![p].pc = label]

\* Mutant of Credited: the credit applied with the debit's sign.
CreditedWithWrongSign(doc, amount) == doc.balance - amount

\* Mutant of Debited: the amount taken twice.
DebitedTwice(doc, amount) == doc.balance - 2 * amount

\* doc.balance as the handler's copy holds it after "balance -= amount" /
\* "balance += amount".
Debited(doc, amount) == doc.balance - amount
Credited(doc, amount) == doc.balance + amount

\* Mutant of SaveUserBalance: the write is dropped.
SaveUserBalanceDropped(id, doc, newBalance) == users

\* user.save(): Mongoose writes only modified paths; a balance assigned
\* the value it already had is not modified and nothing is written.
SaveUserBalance(id, doc, newBalance) ==
    IF newBalance = doc.balance
    THEN users
    ELSE [users EXCEPT ![id].balance = newBalance]

SaveMerchantBalance(id, doc, newBalance) ==
    IF newBalance = doc.balance
    THEN merchants
    ELSE [merchants EXCEPT ![id].balance = newBalance]

\* ------------------------------------------------------------------ Init
\* Two registered students, u1 funded by an earlier upload, and one
\* registered merchant; no request in flight.
Init ==
    /\ build \in {"server.js", "part_000"}
    /\ users = [s \in StudentNumbers |->
                   [exists |-> s \in Students,
                    docs |-> IF s \in Students THEN 1 ELSE 0,
                    balance |-> IF s = "u1" THEN InitBalance ELSE 0]]
    /\ merchants = [m \in MerchantNumbers |->
                       [exists |-> m \in MerchantIds,
                        docs |-> IF m \in MerchantIds THEN 1 ELSE 0,
                        balance |-> 0]]
    /\ transactions = IF InitBalance > 0
                      THEN <<Transaction("UPLOAD", "u1", InitBalance, "upload")>>
                      ELSE <<>>
    /\ qrRequests = [q \in QrIds |->
                        [exists |-> FALSE, to |-> "-", amount |-> 0,
                         status |-> "-", aged |-> FALSE]]
    /\ pendingPayments = [q \in PayIds |->
                             [exists |-> FALSE, merchantId |-> "-", amount |-> 0,
                              status |-> "-", aged |-> FALSE]]
    /\ proc = [p \in Procs |-> Idle]
    /\ nops = 0
    /\ pre = [users |-> users, merchants |-> merchants,
              n |-> Len(transactions), begun |-> 0]

\* A handler that is between its first and its last await.
Running(p) == proc[p].pc \notin {"idle", "done"}

\* A request arrives: verifyToken has resolved req.userId.  The handlers
\* are interchangeable, so the request takes the first slot that is not
\* running (a slot that has answered keeps its answer until it is reused).
Begin(p, op, label, userId, to, amount, id) ==
    /\ ~Running(p)
    /\ \A q \in Procs : q < p => Running(q)
    /\ nops < MaxOps
    /\ nops' = nops + 1
    /\ proc' = [proc EXCEPT ![p] =
                   [Idle EXCEPT !.op = op, !.pc = label, !.userId = userId,
                                !.to = to, !.amount = amount, !.id = id]]
    /\ pre' = IF \A q \in Procs : ~Running(q)
              THEN [users |-> users, merchants |-> merchants,
                    n |-> Len(transactions), begun |-> 1]
              ELSE [pre EXCEPT !.begun = @ + 1]

\* ------------------------------------------------------- POST /send
SendBegin(p, userId, toStudentNumber, amount) ==
    /\ Begin(p, "send", "send_findSender", userId, toStudentNumber, amount, "-")
    /\ UNCHANGED db

\* const sender = await User.findById(req.userId);
SendFindSender(p) ==
    /\ proc[p].pc = "send_findSender"
    /\ proc' = [proc EXCEPT ![p].sender = FindUser(proc[p].userId),
                            ![p].pc = "send_findRecipient"]
    /\ UNCHANGED <<db, nops, pre>>

\* const recipient = await User.findOne(...); then the checks, up to the
\* first save.  sender.balance of a null sender throws (caught: 500).
SendChecks(p, sender, recipient) ==
    IF ~recipient.found THEN "Recipient not found"
    ELSE IF ~sender.found THEN "Error sending money"
    ELSE IF sender.balance < proc[p].amount THEN "Insufficient funds"
    ELSE "continue"

SendFindRecipient(p) ==
    /\ proc[p].pc = "send_findRecipient"
    /\ LET recipient == FindUser(proc[p].to)
           verdict == SendChecks(p, proc[p].sender, recipient)
       IN IF verdict = "continue"
          THEN proc' = [proc EXCEPT ![p].recipient = recipient,
                                    ![p].pc = "send_saveSender"]
          ELSE Reply(p, verdict)
    /\ UNCHANGED <<db, nops, pre>>

\* await sender.save();
SendSaveSender(p, ok) ==
    /\ proc[p].pc = "send_saveSender"
    /\ IF ok
       THEN /\ users' = SaveUserBalance(proc[p].userId, proc[p].sender,
                                        Debited(proc[p].sender, proc[p].amount))
            /\ Goto(p, "send_saveRecipient")
       ELSE /\ Reply(p, "Error sending money")
            /\ UNCHANGED users
    /\ UNCHANGED <<build, merchants, transactions, qrRequests, pendingPayments, nops, pre>>

\* await recipient.save();
SendSaveRecipient(p, ok) ==
    /\ proc[p].pc = "send_saveRecipient"
    /\ IF ok
       THEN /\ users' = SaveUserBalance(proc[p].to, proc[p].recipient,
                                        Credited(proc[p].recipient, proc[p].amount))
            /\ Goto(p, "send_saveTransaction")
       ELSE /\ Reply(p, "Error sending money")
            /\ UNCHANGED users
    /\ UNCHANGED <<build, merchants, transactions, qrRequests, pendingPayments, nops, pre>>

\* await transaction.save(); res.json({ message: "Money sent successfully" })
SendSaveTransaction(p, ok) ==
    /\ proc[p].pc = "send_saveTransaction"
    /\ IF ok
       THEN /\ transactions' = Append(transactions,
                  Transaction(proc[p].userId, proc[p].to, proc[p].amount, "send"))
            /\ Reply(p, "Money sent successfully")
       ELSE /\ Reply(p, "Error sending money")
            /\ UNCHANGED transactions
    /\ UNCHANGED <<build, users, merchants, qrRequests, pendingPayments, nops, pre>>

\* --------------------------------------------------- POST /withdraw
WithdrawBegin(p, userId, amount) ==
    /\ Begin(p, "withdraw", "withdraw_findUser", userId, "WITHDRAW", amount, "-")
    /\ UNCHANGED db

\* const user = await User.findById(req.userId); then the balance check.
WithdrawFindUser(p) ==
    /\ proc[p].pc = "withdraw_findUser"
    /\ LET user == FindUser(proc[p].userId)
       IN IF ~user.found THEN Reply(p, "Error withdrawing money")
          ELSE IF user.balance < proc[p].amount THEN Reply(p, "Insufficient funds")
          ELSE proc' = [proc EXCEPT ![p].sender = user,
                                    ![p].pc = "withdraw_saveUser"]
    /\ UNCHANGED <<db, nops, pre>>

\* user.balance -= amount; await user.save();
WithdrawSaveUser(p, ok) ==
    /\ proc[p].pc = "withdraw_saveUser"
    /\ IF ok
       THEN /\ users' = SaveUserBalance(proc[p].userId, proc[p].sender,
                                        Debited(proc[p].sender, proc[p].amount))
            /\ Goto(p, "withdraw_saveTransaction")
       ELSE /\ Reply(p, "Error withdrawing money")
            /\ UNCHANGED users
    /\ UNCHANGED <<build, merchants, transactions, qrRequests, pendingPayments, nops, pre>>

\* await transaction.save(); res.json(...)
WithdrawSaveTransaction(p, ok) ==
    /\ proc[p].pc = "withdraw_saveTransaction"
    /\ IF ok
       THEN /\ transactions' = Append(transactions,
                  Transaction(proc[p].userId, "WITHDRAW", proc[p].amount, "withdraw"))
            /\ Reply(p, "Money withdrawn successfully")
       ELSE /\ Reply(p, "Error withdrawing money")
            /\ UNCHANGED transactions
    /\ UNCHANGED <<build, users, merchants, qrRequests, pendingPayments, nops, pre>>

\* ----------------------------------------------------- POST /upload
UploadBegin(p, userId, amount) ==
    /\ Begin(p, "upload", "upload_findUser", userId, userId, amount, "-")
    /\ UNCHANGED db

\* const user = await User.findById(req.userId); server.js answers 404 for
\* no user; part_000 has no such check and user.balance throws (500).
UploadFindUser(p) ==
    /\ proc[p].pc = "upload_findUser"
    /\ LET user == FindUser(proc[p].userId)
       IN IF ~user.found
          THEN Reply(p, IF build = "server.js" THEN "User not found"
                        ELSE "Error uploading money")
          ELSE proc' = [proc EXCEPT ![p].recipient = user,
                                    ![p].pc = "upload_saveUser"]
    /\ UNCHANGED <<db, nops, pre>>

\* user.balance += amount; await user.save();
UploadSaveUser(p, ok) ==
    /\ proc[p].pc = "upload_saveUser"
    /\ IF ok
       THEN /\ users' = SaveUserBalance(proc[p].userId, proc[p].recipient,
                                        Credited(proc[p].recipient, proc[p].amount))
            /\ Goto(p, "upload_saveTransaction")
       ELSE /\ Reply(p, "Error uploading money")
            /\ UNCHANGED users
    /\ UNCHANGED <<build, merchants, transactions, qrRequests, pendingPayments, nops, pre>>

\* await transaction.save(); res.json(...)
UploadSaveTransaction(p, ok) ==
    /\ proc[p].pc = "upload_saveTransaction"
    /\ IF ok
       THEN /\ transactions' = Append(transactions,
                  Transaction("UPLOAD", proc[p].userId, proc[p].amount, "upload"))
            /\ Reply(p, "Money uploaded successfully")
       ELSE /\ Reply(p, "Error uploading money")
            /\ UNCHANGED transactions
    /\ UNCHANGED <<build, users, merchants, qrRequests, pendingPayments, nops, pre>>

\* ---------------------------------------------- POST /gen-receive-qr
\* QrCodeTransactionRequest.findById(id).
FindQrRequest(q) ==
    IF q \in DOMAIN qrRequests /\ qrRequests[q].exists
    THEN [found |-> TRUE, to |-> qrRequests[q].to,
          amount |-> qrRequests[q].amount, status |-> qrRequests[q].status]
    ELSE NullRequest

\* The handler's one write: a request to: req.userId, status in_progress,
\* with the body's amount (0 stands for an amount left out: the settle
\* handler reads both through "amount || ...").  The schema sets no expiry.
GenReceiveQr(q, userId, amount) ==
    /\ build = "server.js"
    /\ ~qrRequests[q].exists
    /\ qrRequests' = [qrRequests EXCEPT ![q] =
                         [exists |-> TRUE, to |-> userId, amount |-> amount,
                          status |-> "in_progress", aged |-> FALSE]]
    /\ UNCHANGED <<build, users, merchants, transactions, pendingPayments, proc, nops, pre>>

\* ----------------------------------------------------- POST /qr/:id
QrBegin(p, userId, q, amount) ==
    /\ build = "server.js"
    /\ Begin(p, "qr", "qr_findRequest", userId, "-", amount, q)
    /\ UNCHANGED db

\* Mutant of QrRejected: only a missing request is turned away.
QrRejectedOnlyIfMissing(request) == ~request.found

\* if (!transactionRequest || transactionRequest.status !== "in_progress")
QrRejected(request) == ~request.found \/ request.status # "in_progress"

\* const transactionRequest = await QrCodeTransactionRequest.findById(id);
QrFindRequest(p) ==
    /\ proc[p].pc = "qr_findRequest"
    /\ LET request == FindQrRequest(proc[p].id)
       IN IF QrRejected(request)
          THEN Reply(p, "Transaction not found or already completed")
          ELSE proc' = [proc EXCEPT ![p].request = request,
                                    ![p].pc = "qr_findRecipient"]
    /\ UNCHANGED <<db, nops, pre>>

\* const recipient = await User.findOne({ _id: transactionRequest.to });
QrFindRecipient(p) ==
    /\ proc[p].pc = "qr_findRecipient"
    /\ proc' = [proc EXCEPT ![p].recipient = FindUser(proc[p].request.to),
                            ![p].to = proc[p].request.to,
                            ![p].pc = "qr_findSender"]
    /\ UNCHANGED <<db, nops, pre>>

\* Mutant of QrAmount: the amount of the caller before that of the request.
QrAmountOfBodyFirst(request, bodyAmount) ==
    IF bodyAmount # 0 THEN bodyAmount ELSE request.amount

\* Mutant of QrAmount: the amount of the request only.
QrAmountOfRequestOnly(request, bodyAmount) == request.amount

\* const amount = transactionRequest.amount || req.body.amount;
QrAmount(request, bodyAmount) ==
    IF request.amount # 0 THEN request.amount ELSE bodyAmount

\* The checks between the last read and the first save.
QrChecks(sender, recipient, amount) ==
    IF ~recipient.found THEN "Recipient not found"
    ELSE IF amount = 0 THEN "Amount is required"
    ELSE IF ~sender.found THEN "Error completing transaction"
    ELSE IF sender.balance < amount THEN "Insufficient funds"
    ELSE "continue"

\* const sender = await User.findById(senderId); then the checks.
QrFindSender(p) ==
    /\ proc[p].pc = "qr_findSender"
    /\ LET sender == FindUser(proc[p].userId)
           amount == QrAmount(proc[p].request, proc[p].amount)
           verdict == QrChecks(sender, proc[p].recipient, amount)
       IN IF verdict = "continue"
          THEN proc' = [proc EXCEPT ![p].sender = sender,
                                    ![p].body = proc[p].amount,
                                    ![p].amount = amount,
                                    ![p].pc = "qr_saveSender"]
          ELSE Reply(p, verdict)
    /\ UNCHANGED <<db, nops, pre>>

\* await sender.save();
QrSaveSender(p, ok) ==
    /\ proc[p].pc = "qr_saveSender"
    /\ IF ok
       THEN /\ users' = SaveUserBalance(proc[p].userId, proc[p].sender,
                                        Debited(proc[p].sender, proc[p].amount))
            /\ Goto(p, "qr_saveRecipient")
       ELSE /\ Reply(p, "Error completing transaction")
            /\ UNCHANGED users
    /\ UNCHANGED <<build, merchants, transactions, qrRequests, pendingPayments, nops, pre>>

\* await recipient.save();
QrSaveRecipient(p, ok) ==
    /\ proc[p].pc = "qr_saveRecipient"
    /\ IF ok
       THEN /\ users' = SaveUserBalance(proc[p].to, proc[p].recipient,
                                        Credited(proc[p].recipient, proc[p].amount))
            /\ Goto(p, "qr_saveRequest")
       ELSE /\ Reply(p, "Error completing transaction")
            /\ UNCHANGED users
    /\ UNCHANGED <<build, merchants, transactions, qrRequests, pendingPayments, nops, pre>>

\* Mutant of QrSaveRequest: a failed save of the status is ignored.
QrSaveRequestUnchecked(p, ok) ==
    /\ proc[p].pc = "qr_saveRequest"
    /\ IF ok
       THEN qrRequests' = [qrRequests EXCEPT ![proc[p].id].status = "completed"]
       ELSE UNCHANGED qrRequests
    /\ Goto(p, "qr_saveTransaction")
    /\ UNCHANGED <<build, users, merchants, transactions, pendingPayments, nops, pre>>

\* transactionRequest.status = "completed"; await transactionRequest.save();
QrSaveRequest(p, ok) ==
    /\ proc[p].pc = "qr_saveRequest"
    /\ IF ok
       THEN /\ qrRequests' = [qrRequests EXCEPT ![proc[p].id].status = "completed"]
            /\ Goto(p, "qr_saveTransaction")
       ELSE /\ Reply(p, "Error completing transaction")
            /\ UNCHANGED qrRequests
    /\ UNCHANGED <<build, users, merchants, transactions, pendingPayments, nops, pre>>

\* await transaction.save(); res.json(...)
QrSaveTransaction(p, ok) ==
    /\ proc[p].pc = "qr_saveTransaction"
    /\ IF ok
       THEN /\ transactions' = Append(transactions,
                  Transaction(proc[p].userId, proc[p].to, proc[p].amount, "send"))
            /\ Reply(p, "Transaction completed successfully")
       ELSE /\ Reply(p, "Error completing transaction")
            /\ UNCHANGED transactions
    /\ UNCHANGED <<build, users, merchants, qrRequests, pendingPayments, nops, pre>>

\* ------------------------------- POST /merchant/generate-payment-link
\* PendingPayment.findOne({ paymentId }).
FindPendingPayment(q) ==
    IF q \in DOMAIN pendingPayments /\ pendingPayments[q].exists
    THEN [found |-> TRUE, to |-> pendingPayments[q].merchantId,
          amount |-> pendingPayments[q].amount,
          status |-> pendingPayments[q].status]
    ELSE NullRequest

\* The handler's one write: a payment of the merchant's, status pending
\* (the schema's default), createdAt now.
GeneratePaymentLink(q, merchantId, amount) ==
    /\ build = "part_000"
    /\ ~pendingPayments[q].exists
    /\ pendingPayments[q].status = "-"
    /\ FindMerchant(merchantId).found
    /\ pendingPayments' = [pendingPayments EXCEPT ![q] =
                              [exists |-> TRUE, merchantId |-> merchantId,
                               amount |-> amount, status |-> "pending",
                               aged |-> FALSE]]
    /\ UNCHANGED <<build, users, merchants, transactions, qrRequests, proc, nops, pre>>

\* --------------------------------- POST /process-payment/:paymentId
PayBegin(p, studentNumber, q) ==
    /\ build = "part_000"
    /\ Begin(p, "pay", "pay_findPayment", studentNumber, "-", 0, q)
    /\ UNCHANGED db

\* const pendingPayment = await PendingPayment.findOne({ paymentId });
PayFindPayment(p) ==
    /\ proc[p].pc = "pay_findPayment"
    /\ LET pendingPayment == FindPendingPayment(proc[p].id)
       IN IF ~pendingPayment.found THEN Reply(p, "Payment not found")
          ELSE IF pendingPayment.status # "pending"
          THEN Reply(p, "Payment already processed")
          ELSE proc' = [proc EXCEPT ![p].request = pendingPayment,
                                    ![p].pc = "pay_findStudent"]
    /\ UNCHANGED <<db, nops, pre>>

\* const student = await User.findOne({ studentNumber }); then
\* bcrypt.compare(password, student.password), which reads no collection.
PayFindStudent(p, validPassword) ==
    /\ proc[p].pc = "pay_findStudent"
    /\ LET student == FindUser(proc[p].userId)
       IN IF ~student.found THEN Reply(p, "Student not found")
          ELSE IF ~validPassword THEN Reply(p, "Invalid password")
          ELSE proc' = [proc EXCEPT ![p].sender = student,
                                    ![p].pc = "pay_findMerchant"]
    /\ UNCHANGED <<db, nops, pre>>

\* The balance check of the handler is commented out in the source
\* (part_000 lines 464-465): nothing stands between the reads and the saves.
PayChecks(student, merchant, amount) ==
    IF ~merchant.found THEN "Merchant not found"
    ELSE "continue"

\* const merchant = await Merchant.findOne({ merchantId });
PayFindMerchant(p) ==
    /\ proc[p].pc = "pay_findMerchant"
    /\ LET merchant == FindMerchant(proc[p].request.to)
           verdict == PayChecks(proc[p].sender, merchant, proc[p].request.amount)
       IN IF verdict = "continue"
          THEN proc' = [proc EXCEPT ![p].recipient = merchant,
                                    ![p].to = proc[p].request.to,
                                    ![p].amount = proc[p].request.amount,
                                    ![p].pc = "pay_saveStudent"]
          ELSE Reply(p, verdict)
    /\ UNCHANGED <<db, nops, pre>>

\* await student.save();
PaySaveStudent(p, ok) ==
    /\ proc[p].pc = "pay_saveStudent"
    /\ IF ok
       THEN /\ users' = SaveUserBalance(proc[p].userId, proc[p].sender,
                                        Debited(proc[p].sender, proc[p].amount))
            /\ Goto(p, "pay_saveMerchant")
       ELSE /\ Reply(p, "Error processing payment")
            /\ UNCHANGED users
    /\ UNCHANGED <<build, merchants, transactions, qrRequests, pendingPayments, nops, pre>>

\* await merchant.save();
PaySaveMerchant(p, ok) ==
    /\ proc[p].pc = "pay_saveMerchant"
    /\ IF ok
       THEN /\ merchants' = SaveMerchantBalance(proc[p].to, proc[p].recipient,
                                Credited(proc[p].recipient, proc[p].amount))
            /\ Goto(p, "pay_saveTransaction")
       ELSE /\ Reply(p, "Error processing payment")
            /\ UNCHANGED merchants
    /\ UNCHANGED <<build, users, transactions, qrRequests, pendingPayments, nops, pre>>

\* await transaction.save();
PaySaveTransaction(p, ok) ==
    /\ proc[p].pc = "pay_saveTransaction"
    /\ IF ok
       THEN /\ transactions' = Append(transactions,
                  Transaction(proc[p].userId, proc[p].to, proc[p].amount,
                              "merchant_payment"))
            /\ Goto(p, "pay_savePayment")
       ELSE /\ Reply(p, "Error processing payment")
            /\ UNCHANGED transactions
    /\ UNCHANGED <<build, users, merchants, qrRequests, pendingPayments, nops, pre>>

\* pendingPayment.status = "completed"; await pendingPayment.save();
\* res.json(...).  save() of a document the TTL monitor has removed in the
\* meantime matches nothing and throws (DocumentNotFoundError: 500).
PaySavePayment(p, ok) ==
    /\ proc[p].pc = "pay_savePayment"
    /\ IF ok /\ pendingPayments[proc[p].id].exists
       THEN /\ pendingPayments' =
                  [pendingPayments EXCEPT ![proc[p].id].status = "completed"]
            /\ Reply(p, "Payment successful")
       ELSE /\ Reply(p, "Error processing payment")
            /\ UNCHANGED pendingPayments
    /\ UNCHANGED <<build, users, merchants, transactions, qrRequests, nops, pre>>

\* ------------------------------------------------- POST /register
\* Mutant of NewAccount: an account that starts with money.
NewAccountWithCredit == [exists |-> TRUE, docs |-> 1, balance |-> 1]

\* new User({ ... }) / new Merchant({ ... }): balance defaults to 0.
NewAccount == [exists |-> TRUE, docs |-> 1, balance |-> 0]

\* Mutant of UniqueIndexRejects: the collection has no unique index.
UniqueIndexMissing(doc) == FALSE

\* studentNumber / merchantId: { unique: true }: the insert of a second
\* document with the same key is refused (E11000 duplicate key).
UniqueIndexRejects(doc) == doc.docs > 0

\* The stored document after one more insert under its key.
Inserted(doc) ==
    IF doc.docs = 0 THEN NewAccount ELSE [doc EXCEPT !.docs = @ + 1]

RegisterBegin(p, studentNumber) ==
    /\ Begin(p, "register", "register_findUser", studentNumber, "-", 0, "-")
    /\ UNCHANGED db

\* const existingUser = await User.findOne({ studentNumber });
RegisterFindUser(p) ==
    /\ proc[p].pc = "register_findUser"
    /\ IF FindUser(proc[p].userId).found
       THEN Reply(p, IF build = "server.js" THEN "User already exists"
                     ELSE "User with this student number already exists")
       ELSE Goto(p, "register_saveUser")
    /\ UNCHANGED <<db, nops, pre>>

\* await user.save(); res.status(201).json(...)
RegisterSaveUser(p, ok) ==
    /\ proc[p].pc = "register_saveUser"
    /\ IF ok /\ ~UniqueIndexRejects(users[proc[p].userId])
       THEN /\ users' = [users EXCEPT ![proc[p].userId] = Inserted(@)]
            /\ Reply(p, "User registered successfully")
       ELSE /\ Reply(p, "Error registering user")
            /\ UNCHANGED users
    /\ UNCHANGED <<build, merchants, transactions, qrRequests, pendingPayments, nops, pre>>

\* ---------------------------------------- POST /register/merchant
MerchantRegisterBegin(p, merchantId) ==
    /\ build = "part_000"
    /\ Begin(p, "register_merchant", "register_findMerchant", merchantId, "-", 0, "-")
    /\ UNCHANGED db

\* const existingMerchant = await Merchant.findOne({ merchantId });
MerchantRegisterFind(p) ==
    /\ proc[p].pc = "register_findMerchant"
    /\ IF FindMerchant(proc[p].userId).found
       THEN Reply(p, "Merchant with this ID already exists")
       ELSE Goto(p, "register_saveMerchant")
    /\ UNCHANGED <<db, nops, pre>>

\* await merchant.save(); res.status(201).json(...)
MerchantRegisterSave(p, ok) ==
    /\ proc[p].pc = "register_saveMerchant"
    /\ IF ok /\ ~UniqueIndexRejects(merchants[proc[p].userId])
       THEN /\ merchants' = [merchants EXCEPT ![proc[p].userId] = Inserted(@)]
            /\ Reply(p, "Merchant registered successfully")
       ELSE /\ Reply(p, "Error registering merchant")
            /\ UNCHANGED merchants
    /\ UNCHANGED <<build, users, transactions, qrRequests, pendingPayments, nops, pre>>

\* --------------------- POST /login, GET /balance, GET /transactions
LoginBegin(p, studentNumber) ==
    /\ Begin(p, "login", "login_findUser", studentNumber, "-", 0, "-")
    /\ UNCHANGED db

\* user = await User.findOne({ studentNumber }); bcrypt.compare; jwt.sign.
LoginFindUser(p, validPassword) ==
    /\ proc[p].pc = "login_findUser"
    /\ Reply(p, IF ~FindUser(proc[p].userId).found THEN "User not found"
                ELSE IF ~validPassword THEN "Invalid password"
                ELSE "token")
    /\ UNCHANGED <<db, nops, pre>>

BalanceBegin(p, userId) ==
    /\ Begin(p, "balance", "balance_findUser", userId, "-", 0, "-")
    /\ UNCHANGED db

\* const user = await User.findById(req.userId); res.json({ balance }).
BalanceFindUser(p) ==
    /\ proc[p].pc = "balance_findUser"
    /\ Reply(p, IF FindUser(proc[p].userId).found THEN "balance"
                ELSE "Error fetching balance")
    /\ UNCHANGED <<db, nops, pre>>

HistoryBegin(p, userId) ==
    /\ Begin(p, "history", "history_findUser", userId, "-", 0, "-")
    /\ UNCHANGED db

\* const user = await User.findById(req.userId);
HistoryFindUser(p) ==
    /\ proc[p].pc = "history_findUser"
    /\ IF FindUser(proc[p].userId).found
       THEN Goto(p, "history_findTransactions")
       ELSE Reply(p, "Error fetching transactions")
    /\ UNCHANGED <<db, nops, pre>>

\* Mutant of SortNewestFirst: the documents in the order of their insertion.
SortOldestFirst(found) == found

\* .sort({ timestamp: -1 }): the timestamp of a transaction is the time of
\* its creation, so the latest insert comes first.
SortNewestFirst(found) ==
    [i \in 1..Len(found) |-> found[Len(found) + 1 - i]]

\* Transaction.find({ $or: [{ from: studentNumber }, { to: studentNumber }] })
FindStudentTransactions(studentNumber) ==
    LET Selected(t) == t.from = studentNumber \/ t.to = studentNumber
    IN SelectSeq(transactions, Selected)

\* Transaction.find({ to: merchantId, type: "merchant_payment" })
FindMerchantTransactions(merchantId) ==
    LET Selected(t) == t.to = merchantId /\ t.type = "merchant_payment"
    IN SelectSeq(transactions, Selected)

\* res.json(transactions): the handler answers with the documents found.
ReplyRows(p, found) ==
    proc' = [proc EXCEPT ![p].pc = "done", ![p].res = "transactions",
                         ![p].rows = found]

\* await Transaction.find({ $or: [...] }).sort({ timestamp: -1 }); res.json.
\* (part_000 then looks up the names of the two parties of each document
\* and answers with the same documents in the same order.)
HistoryFindTransactions(p) ==
    /\ proc[p].pc = "history_findTransactions"
    /\ ReplyRows(p, SortNewestFirst(FindStudentTransactions(proc[p].userId)))
    /\ UNCHANGED <<db, nops, pre>>

\* ------------------------------------ GET /merchant/transactions
\* if (req.userType !== "merchant") return 403: the caller holds a
\* merchant's token, so the merchant is registered.
MerchantHistoryBegin(p, merchantId) ==
    /\ build = "part_000"
    /\ merchants[merchantId].exists
    /\ Begin(p, "merchant_history", "merchant_history_findMerchant",
             merchantId, "-", 0, "-")
    /\ UNCHANGED db

\* const merchant = await Merchant.findById(req.userId);
MerchantHistoryFindMerchant(p) ==
    /\ proc[p].pc = "merchant_history_findMerchant"
    /\ IF FindMerchant(proc[p].userId).found
       THEN Goto(p, "merchant_history_findTransactions")
       ELSE Reply(p, "Error fetching transactions")
    /\ UNCHANGED <<db, nops, pre>>

\* await Transaction.find({ to, type }).sort({ timestamp: -1 }); res.json.
MerchantHistoryFindTransactions(p) ==
    /\ proc[p].pc = "merchant_history_findTransactions"
    /\ ReplyRows(p, SortNewestFirst(FindMerchantTransactions(proc[p].userId)))
    /\ UNCHANGED <<db, nops, pre>>

\* ------------------------------------------------------------- time
\* More than one hour has passed since the request was created.
QrHourPasses(q) ==
    /\ qrRequests[q].exists
    /\ ~qrRequests[q].aged
    /\ qrRequests' = [qrRequests EXCEPT ![q].aged = TRUE]
    /\ UNCHANGED <<build, users, merchants, transactions, pendingPayments, proc, nops, pre>>

PayHourPasses(q) ==
    /\ pendingPayments[q].exists
    /\ ~pendingPayments[q].aged
    /\ pendingPayments' = [pendingPayments EXCEPT ![q].aged = TRUE]
    /\ UNCHANGED <<build, users, merchants, transactions, qrRequests, proc, nops, pre>>

\* createdAt: { expires: "1h" }: MongoDB's TTL monitor removes the document
\* some time after createdAt + 1h, whatever its status.
PayTTLDelete(q) ==
    /\ pendingPayments[q].exists
    /\ pendingPayments[q].aged
    /\ pendingPayments' = [pendingPayments EXCEPT ![q].exists = FALSE]
    /\ UNCHANGED <<build, users, merchants, transactions, qrRequests, proc, nops, pre>>

\* ------------------------------------------------------------ server
\* One await of one handler; ok: the storage write of the step succeeds.
WalletStep(p, ok) ==
    \/ SendFindSender(p)
    \/ SendFindRecipient(p)
    \/ SendSaveSender(p, ok)
    \/ SendSaveRecipient(p, ok)
    \/ SendSaveTransaction(p, ok)
    \/ WithdrawFindUser(p)
    \/ WithdrawSaveUser(p, ok)
    \/ WithdrawSaveTransaction(p, ok)
    \/ UploadFindUser(p)
    \/ UploadSaveUser(p, ok)
    \/ UploadSaveTransaction(p, ok)

QrStep(p, ok) ==
    \/ QrFindRequest(p)
    \/ QrFindRecipient(p)
    \/ QrFindSender(p)
    \/ QrSaveSender(p, ok)
    \/ QrSaveRecipient(p, ok)
    \/ QrSaveRequest(p, ok)
    \/ QrSaveTransaction(p, ok)

PayStep(p, ok) ==
    \/ PayFindPayment(p)
    \/ \E validPassword \in BOOLEAN : PayFindStudent(p, validPassword)
    \/ PayFindMerchant(p)
    \/ PaySaveStudent(p, ok)
    \/ PaySaveMerchant(p, ok)
    \/ PaySaveTransaction(p, ok)
    \/ PaySavePayment(p, ok)

\* The ids verifyToken hands to the student routes.  server.js signs
\* tokens for users only; part_000 also signs them for merchants and its
\* student routes do not look at req.userType, so there the id may resolve
\* to no User (u3).
Callers == IF build = "part_000" THEN StudentNumbers ELSE Students

\* A request arrives, its amount drawn from A.
WalletArrive(p, A) ==
    \/ \E u \in Callers, t \in StudentNumbers, a \in A : SendBegin(p, u, t, a)
    \/ \E u \in Callers, a \in A : WithdrawBegin(p, u, a)
    \/ \E u \in Callers, a \in A : UploadBegin(p, u, a)

\* A QR receive request is created (its amount may be left out) or a
\* settle call arrives for one.
QrArrive(p, A) ==
    \/ \E q \in QrIds, u \in Students, a \in A \cup {0} : GenReceiveQr(q, u, a)
    \/ \E u \in Students, q \in QrIds, a \in A : QrBegin(p, u, q, a)

\* A payment link is created or a payment call arrives for one.
PayArrive(p, A) ==
    \/ \E q \in PayIds, m \in MerchantIds, a \in A : GeneratePaymentLink(q, m, a)
    \/ \E u \in StudentNumbers, q \in PayIds : PayBegin(p, u, q)

\* Registrations, student (both versions) and merchant (part_000).
AccountStep(p, ok) ==
    \/ RegisterFindUser(p)
    \/ RegisterSaveUser(p, ok)
    \/ MerchantRegisterFind(p)
    \/ MerchantRegisterSave(p, ok)

AccountArrive(p) ==
    \/ \E s \in StudentNumbers : RegisterBegin(p, s)
    \/ \E m \in MerchantNumbers : MerchantRegisterBegin(p, m)

\* The routes that only read.
QueryStep(p) ==
    \/ \E validPassword \in BOOLEAN : LoginFindUser(p, validPassword)
    \/ BalanceFindUser(p)
    \/ HistoryFindUser(p)
    \/ HistoryFindTransactions(p)
    \/ MerchantHistoryFindMerchant(p)
    \/ MerchantHistoryFindTransactions(p)

QueryArrive(p) ==
    \/ \E s \in StudentNumbers : LoginBegin(p, s)
    \/ \E u \in Callers : BalanceBegin(p, u)
    \/ \E u \in Callers : HistoryBegin(p, u)
    \/ \E m \in MerchantNumbers : MerchantHistoryBegin(p, m)

QrClock ==
    \E q \in QrIds : QrHourPasses(q)

PayClock ==
    \/ \E q \in PayIds : PayHourPasses(q)
    \/ \E q \in PayIds : PayTTLDelete(q)

\* The server: requests arrive at any time with any amount, handlers
\* interleave at their awaits, any storage write may fail.
Next ==
    \/ \E p \in Procs : WalletArrive(p, Amounts)
    \/ \E p \in Procs : QrArrive(p, Amounts)
    \/ \E p \in Procs : PayArrive(p, Amounts)
    \/ \E p \in Procs : AccountArrive(p)
    \/ \E p \in Procs : QueryArrive(p)
    \/ \E p \in Procs, ok \in BOOLEAN : WalletStep(p, ok)
    \/ \E p \in Procs, ok \in BOOLEAN : QrStep(p, ok)
    \/ \E p \in Procs, ok \in BOOLEAN : PayStep(p, ok)
    \/ \E p \in Procs, ok \in BOOLEAN : AccountStep(p, ok)
    \/ \E p \in Procs : QueryStep(p)
    \/ QrClock
    \/ PayClock

Spec == Init /\ [][Next]_vars

\* ---------------------------------------------------- specifications
\* The server as the clients of one feature drive it: the wallet routes
\* (send, withdraw, upload) or the two-phase flows (QR receive requests,
\* payment links).  The handlers of a feature interleave as in Spec; each
\* specification below is Spec with the other feature's requests never
\* sent, and, where its name says so, with an environment that behaves.
PositiveAmounts == {a \in Amounts : a > 0}

\* Wallet routes, any amount, any storage write may fail.
WalletNext ==
    \/ \E p \in Procs : WalletArrive(p, Amounts)
    \/ \E p \in Procs, ok \in BOOLEAN : WalletStep(p, ok)

SpecWallet == Init /\ [][WalletNext]_vars

\* Wallet routes, any amount, every storage write succeeds.
WalletReliableNext ==
    \/ \E p \in Procs : WalletArrive(p, Amounts)
    \/ \E p \in Procs : WalletStep(p, TRUE)

SpecWalletReliable == Init /\ [][WalletReliableNext]_vars

\* No handler is running.
Quiet == \A q \in Procs : ~Running(q)

\* Wallet routes called one at a time: a request arrives only at a quiet
\* server.  Any amount, every storage write succeeds.
WalletSerialNext ==
    \/ \E p \in Procs : Quiet /\ WalletArrive(p, Amounts)
    \/ \E p \in Procs : WalletStep(p, TRUE)

SpecWalletSerial == Init /\ [][WalletSerialNext]_vars

\* Two-phase flows, any amount, any storage write may fail.
RequestsNext ==
    \/ \E p \in Procs : QrArrive(p, Amounts)
    \/ \E p \in Procs : PayArrive(p, Amounts)
    \/ \E p \in Procs, ok \in BOOLEAN : QrStep(p, ok)
    \/ \E p \in Procs, ok \in BOOLEAN : PayStep(p, ok)
    \/ QrClock
    \/ PayClock

SpecRequests == Init /\ [][RequestsNext]_vars

\* Two-phase flows in the nominal environment: every amount a client sends
\* is positive and every storage write succeeds.
RequestsNominalNext ==
    \/ \E p \in Procs : QrArrive(p, PositiveAmounts)
    \/ \E p \in Procs : PayArrive(p, PositiveAmounts)
    \/ \E p \in Procs : QrStep(p, TRUE)
    \/ \E p \in Procs : PayStep(p, TRUE)
    \/ QrClock
    \/ PayClock

SpecRequestsNominal == Init /\ [][RequestsNominalNext]_vars

\* Two-phase flows called one at a time: a settle call arrives only at a
\* quiet server.  Any amount, every storage write succeeds.
RequestsSerialNext ==
    \/ \E p \in Procs : Quiet /\ QrArrive(p, Amounts)
    \/ \E p \in Procs : Quiet /\ PayArrive(p, Amounts)
    \/ \E p \in Procs : QrStep(p, TRUE)
    \/ \E p \in Procs : PayStep(p, TRUE)
    \/ QrClock
    \/ PayClock

SpecRequestsSerial == Init /\ [][RequestsSerialNext]_vars

\* Registrations only, interleaved, any storage write may fail.
AccountsNext ==
    \/ \E p \in Procs : AccountArrive(p)
    \/ \E p \in Procs, ok \in BOOLEAN : AccountStep(p, ok)

SpecAccounts == Init /\ [][AccountsNext]_vars

\* Every route of the server, called one at a time: a request arrives
\* only at a quiet server.  Any amount, any storage write may fail.
ServerSerialNext ==
    \/ \E p \in Procs : Quiet /\ WalletArrive(p, Amounts)
    \/ \E p \in Procs : Quiet /\ QrArrive(p, Amounts)
    \/ \E p \in Procs : Quiet /\ PayArrive(p, Amounts)
    \/ \E p \in Procs : Quiet /\ AccountArrive(p)
    \/ \E p \in Procs : Quiet /\ QueryArrive(p)
    \/ \E p \in Procs, ok \in BOOLEAN : WalletStep(p, ok)
    \/ \E p \in Procs, ok \in BOOLEAN : QrStep(p, ok)
    \/ \E p \in Procs, ok \in BOOLEAN : PayStep(p, ok)
    \/ \E p \in Procs, ok \in BOOLEAN : AccountStep(p, ok)
    \/ \E p \in Procs : QueryStep(p)
    \/ QrClock
    \/ PayClock

SpecServerSerial == Init /\ [][ServerSerialNext]_vars

\* The wallet routes, the payment links and the routes that read, called
\* one at a time within the hour of a link.  Any amount, every storage
\* write succeeds.
LedgerSerialNext ==
    \/ \E p \in Procs : Quiet /\ WalletArrive(p, Amounts)
    \/ \E p \in Procs : Quiet /\ PayArrive(p, Amounts)
    \/ \E p \in Procs : Quiet /\ QueryArrive(p)
    \/ \E p \in Procs : WalletStep(p, TRUE)
    \/ \E p \in Procs : PayStep(p, TRUE)
    \/ \E p \in Procs : QueryStep(p)

SpecLedgerSerial == Init /\ [][LedgerSerialNext]_vars

\* -------------------------------------------------------------- claims
\* The answers that report success.
SuccessMessages ==
    {"Money sent successfully", "Money withdrawn successfully",
     "Money uploaded successfully", "Transaction completed successfully",
     "Payment successful"}

Done(p) == proc[p].pc = "done"

\* p is the only handler started since the server was last quiet, so no
\* other handler's await is interleaved with p's (a quiet server gives the
\* request its first slot).
Solo(p) == pre.begun = 1 /\ \A q \in Procs : p <= q

\* p is a send between two distinct registered students of an amount the
\* sender could afford when the request arrived.
AffordableSend(p) ==
    /\ proc[p].op = "send"
    /\ proc[p].userId # proc[p].to
    /\ pre.users[proc[p].userId].exists
    /\ pre.users[proc[p].to].exists
    /\ 0 < proc[p].amount
    /\ proc[p].amount <= pre.users[proc[p].userId].balance

\* C1: a send of m from A to B (distinct, registered, 0 < m <= balance(A))
\* that runs with no other handler interleaved takes exactly m from A,
\* gives exactly m to B, keeps balance(A) + balance(B), and appends exactly
\* one transaction from A to B of amount m and type send.
C1_SendMovesAmount ==
    \A p \in Procs :
        (Solo(p) /\ Done(p) /\ AffordableSend(p)) =>
            LET A == proc[p].userId
                B == proc[p].to
                m == proc[p].amount
            IN /\ proc[p].res = "Money sent successfully"
               /\ users[A].balance = pre.users[A].balance - m
               /\ users[B].balance = pre.users[B].balance + m
               /\ users[A].balance + users[B].balance
                      = pre.users[A].balance + pre.users[B].balance
               /\ \A s \in StudentNumbers \ {A, B} : users[s] = pre.users[s]
               /\ Len(transactions) = pre.n + 1
               /\ transactions[pre.n + 1] = Transaction(A, B, m, "send")

\* C1 witness: such a send has answered.
C1_Witness ==
    \E p \in Procs : Solo(p) /\ Done(p) /\ AffordableSend(p)

\* The answers that turn a request away before anything is written.
LookupFailures ==
    {"Recipient not found", "User not found", "Amount is required",
     "Transaction not found or already completed", "Payment not found",
     "Payment already processed", "Student not found", "Invalid password",
     "Merchant not found"}

\* Nothing of what p's request arrived to has changed: no balance, no
\* transaction.
NothingMoved ==
    /\ users = pre.users
    /\ merchants = pre.merchants
    /\ Len(transactions) = pre.n

\* C2: a debit of more than the payer has (send, withdraw, QR settle,
\* merchant payment; payer, payee and request all found) answers
\* "Insufficient funds" and moves nothing.
C2_OverdraftRejected ==
    \A p \in Procs :
        (/\ Solo(p) /\ Done(p)
         /\ proc[p].op \in {"send", "withdraw", "qr", "pay"}
         /\ proc[p].res \notin LookupFailures
         /\ pre.users[proc[p].userId].exists
         /\ proc[p].amount > 0
         /\ proc[p].amount > pre.users[proc[p].userId].balance)
        => (proc[p].res = "Insufficient funds" /\ NothingMoved)

\* C3: no stored balance, of a student or of a merchant, is ever negative.
C3_BalancesNonNegative ==
    /\ \A s \in StudentNumbers : users[s].balance >= 0
    /\ \A m \in MerchantIds : merchants[m].balance >= 0

\* p is a send of a positive amount from one of u1, u2 to the other.
SendBetween(p) ==
    /\ proc[p].op = "send"
    /\ {proc[p].userId, proc[p].to} = {"u1", "u2"}
    /\ proc[p].amount > 0

\* C4: when sends between u1 and u2 that ran concurrently (every handler
\* started since the server was last quiet) have all answered,
\* balance(u1) + balance(u2) is what it was before they started, and no
\* balance is negative.
C4_ConcurrentSendsKeepSum ==
    (/\ pre.begun = NProcs
     /\ \A p \in Procs : Done(p) /\ SendBetween(p))
    => /\ users["u1"].balance + users["u2"].balance
              = pre.users["u1"].balance + pre.users["u2"].balance
       /\ users["u1"].balance >= 0
       /\ users["u2"].balance >= 0

\* The transactions that settle a request.
Settlements == {i \in DOMAIN transactions : transactions[i].type # "upload"}

\* C5: of two settle calls for one request at most one answers success,
\* and together they append at most one transaction.
C5_OneSettlePerRequest ==
    \A p, q \in Procs :
        (/\ p # q /\ Done(p) /\ Done(q)
         /\ proc[p].op \in {"qr", "pay"}
         /\ proc[p].op = proc[q].op
         /\ proc[p].id = proc[q].id)
        => /\ ~(proc[p].res \in SuccessMessages /\ proc[q].res \in SuccessMessages)
           /\ Cardinality(Settlements) <= 1

\* C6: a send of a positive amount between two distinct students, alone on
\* the server, shows the collections either as they were or with the
\* debit, the credit and the transaction all in place: never in between.
C6_TransferIsOneUnit ==
    \A p \in Procs :
        (/\ Solo(p) /\ proc[p].op = "send"
         /\ proc[p].userId # proc[p].to /\ proc[p].amount > 0)
        => LET A == proc[p].userId
               B == proc[p].to
               m == proc[p].amount
           IN \/ NothingMoved
              \/ /\ users[A].balance = pre.users[A].balance - m
                 /\ users[B].balance = pre.users[B].balance + m
                 /\ Len(transactions) = pre.n + 1

\* C7: a send (positive amount, distinct students, alone on the server)
\* that has answered, whatever storage write failed in it, has either
\* moved nothing or put the debit, the credit and the transaction all in
\* place; and it answers success only in the second case.
C7_NoPartialEffect ==
    \A p \in Procs :
        (/\ Solo(p) /\ Done(p) /\ proc[p].op = "send"
         /\ proc[p].userId # proc[p].to /\ proc[p].amount > 0)
        => LET A == proc[p].userId
               B == proc[p].to
               m == proc[p].amount
           IN \/ NothingMoved /\ proc[p].res \notin SuccessMessages
              \/ /\ users[A].balance = pre.users[A].balance - m
                 /\ users[B].balance = pre.users[B].balance + m
                 /\ Len(transactions) = pre.n + 1
                 /\ proc[p].res \in SuccessMessages

\* p's handler looks its request up in this step.
QrLookup(p) ==
    proc[p].pc = "qr_findRequest" /\ proc'[p].pc # "qr_findRequest"
PayLookup(p) ==
    proc[p].pc = "pay_findPayment" /\ proc'[p].pc # "pay_findPayment"

\* The step turns p's request away and writes nothing.
TurnedAway(p) ==
    /\ proc'[p].pc = "done"
    /\ proc'[p].res \notin SuccessMessages
    /\ UNCHANGED db

\* C8: a settle call that finds its request older than one hour and still
\* in its initial status is turned away there, and nothing is written.
C8_ExpiredRejected ==
    [][\A p \in Procs :
          /\ (/\ QrLookup(p)
              /\ qrRequests[proc[p].id].exists
              /\ qrRequests[proc[p].id].aged
              /\ qrRequests[proc[p].id].status = "in_progress")
             => TurnedAway(p)
          /\ (/\ PayLookup(p)
              /\ pendingPayments[proc[p].id].exists
              /\ pendingPayments[proc[p].id].aged
              /\ pendingPayments[proc[p].id].status = "pending")
             => TurnedAway(p)]_vars

\* C9: a send, withdraw or upload of a zero or negative amount answers
\* with a failure and moves nothing.
C9_InvalidAmountRejected ==
    \A p \in Procs :
        (/\ Solo(p) /\ Done(p)
         /\ proc[p].op \in {"send", "withdraw", "upload"}
         /\ proc[p].amount <= 0)
        => (proc[p].res \notin SuccessMessages /\ NothingMoved)

\* A request that has left its initial status keeps its status.
StatusKept ==
    /\ \A q \in QrIds :
          qrRequests[q].status = "completed"
              => qrRequests'[q].status = qrRequests[q].status
    /\ \A q \in PayIds :
          pendingPayments[q].status = "completed"
              => pendingPayments'[q].status = pendingPayments[q].status

\* C10 as stated: a request that has left its initial status keeps its
\* status, and a settle call that looks it up afterwards is turned away as
\* already settled, nothing written.
C10_AlreadySettled ==
    [][/\ StatusKept
       /\ \A p \in Procs :
             /\ (QrLookup(p) /\ qrRequests[proc[p].id].status = "completed")
                => /\ TurnedAway(p)
                   /\ proc'[p].res = "Transaction not found or already completed"
             /\ (PayLookup(p) /\ pendingPayments[proc[p].id].status = "completed")
                => /\ TurnedAway(p)
                   /\ proc'[p].res = "Payment already processed"]_vars

\* C10, amended: a request that has left its initial status keeps its
\* status, and a settle call that looks it up afterwards is turned away,
\* nothing written: as already settled while the request's document is
\* stored, as not found once the one-hour index has removed the document of
\* a payment link.
C10_SettledStaysSettled ==
    [][/\ StatusKept
       /\ \A p \in Procs :
             /\ (QrLookup(p) /\ qrRequests[proc[p].id].status = "completed")
                => /\ TurnedAway(p)
                   /\ proc'[p].res = "Transaction not found or already completed"
             /\ (PayLookup(p) /\ pendingPayments[proc[p].id].status = "completed")
                => /\ TurnedAway(p)
                   /\ proc'[p].res =
                         IF pendingPayments[proc[p].id].exists
                         THEN "Payment already processed"
                         ELSE "Payment not found"]_vars

C10_Witness ==
    \E p \in Procs :
        /\ Done(p) /\ proc[p].op = "qr"
        /\ qrRequests[proc[p].id].status = "completed"
        /\ proc[p].res = "Transaction not found or already completed"

\* p's settle handler gives up in this step at one of the checks of the
\* transfer (payer, beneficiary, amount, funds).
TransferRejected(p) ==
    /\ proc[p].pc \in {"qr_findRecipient", "qr_findSender",
                       "pay_findStudent", "pay_findMerchant"}
    /\ proc'[p].pc = "done"

\* p's settle handler gives up in this step because a balance write failed.
BalanceWriteFailed(p) ==
    /\ proc[p].pc \in {"qr_saveSender", "qr_saveRecipient",
                       "pay_saveStudent", "pay_saveMerchant"}
    /\ proc'[p].pc = "done"

\* The request p settles is stored in its initial status after the step.
StillInitial(p) ==
    IF proc[p].op = "qr"
    THEN qrRequests'[proc[p].id].status = "in_progress"
    ELSE pendingPayments'[proc[p].id].status = "pending"

\* C11: when a settle call (alone on the server) gives up because the
\* transfer fails, at a check or at a failed balance write, the request
\* keeps its initial status and no balance has been changed.
C11_FailedSettleChangesNothing ==
    [][\A p \in Procs :
          (Solo(p) /\ (TransferRejected(p) \/ BalanceWriteFailed(p)))
          => /\ StillInitial(p)
             /\ users' = pre.users
             /\ merchants' = pre.merchants]_vars

\* C12: the one request of a flow (q1, p1; a transaction does not name its
\* request, so the settlement transactions are those of that request) has
\* exactly one settlement transaction whenever it is completed, and none
\* while it is in its initial status and no settle call is running.
C12_CompletedHasOneEntry ==
    /\ \A q \in QrIds :
          /\ qrRequests[q].status = "completed"
                => Cardinality(Settlements) = 1
          /\ (qrRequests[q].status = "in_progress" /\ Quiet)
                => Cardinality(Settlements) = 0
    /\ \A q \in PayIds :
          /\ pendingPayments[q].status = "completed"
                => Cardinality(Settlements) = 1
          /\ (pendingPayments[q].status = "pending" /\ Quiet)
                => Cardinality(Settlements) = 0

\* p is an upload of a positive amount to a registered student.
PositiveUpload(p) ==
    /\ proc[p].op = "upload"
    /\ pre.users[proc[p].userId].exists
    /\ proc[p].amount > 0

\* C13: an upload of m > 0 to a registered student A, alone on the server,
\* answers success whatever A's balance, adds exactly m to balance(A),
\* changes no other balance and appends exactly the transaction
\* ("UPLOAD", A, m, upload).
C13_UploadCreditsAmount ==
    \A p \in Procs :
        (Solo(p) /\ Done(p) /\ PositiveUpload(p))
        => LET A == proc[p].userId
               m == proc[p].amount
           IN /\ proc[p].res = "Money uploaded successfully"
              /\ users[A].balance = pre.users[A].balance + m
              /\ \A s \in StudentNumbers \ {A} : users[s] = pre.users[s]
              /\ merchants = pre.merchants
              /\ Len(transactions) = pre.n + 1
              /\ transactions[pre.n + 1] = Transaction("UPLOAD", A, m, "upload")

C13_Witness ==
    \E p \in Procs : Solo(p) /\ Done(p) /\ PositiveUpload(p)

\* p is a withdraw of a positive amount the student could afford when the
\* request arrived.
AffordableWithdraw(p) ==
    /\ proc[p].op = "withdraw"
    /\ pre.users[proc[p].userId].exists
    /\ 0 < proc[p].amount
    /\ proc[p].amount <= pre.users[proc[p].userId].balance

\* C14: a withdraw of m, 0 < m <= balance(A), alone on the server, answers
\* success, takes exactly m from balance(A) (leaving zero when m is the
\* whole balance), changes no other balance and appends exactly the
\* transaction (A, "WITHDRAW", m, withdraw).
C14_WithdrawDebitsAmount ==
    \A p \in Procs :
        (Solo(p) /\ Done(p) /\ AffordableWithdraw(p))
        => LET A == proc[p].userId
               m == proc[p].amount
           IN /\ proc[p].res = "Money withdrawn successfully"
              /\ users[A].balance = pre.users[A].balance - m
              /\ (m = pre.users[A].balance => users[A].balance = 0)
              /\ \A s \in StudentNumbers \ {A} : users[s] = pre.users[s]
              /\ merchants = pre.merchants
              /\ Len(transactions) = pre.n + 1
              /\ transactions[pre.n + 1] = Transaction(A, "WITHDRAW", m, "withdraw")

\* A withdraw of the whole balance has answered.
C14_Witness ==
    \E p \in Procs :
        /\ Solo(p) /\ Done(p) /\ AffordableWithdraw(p)
        /\ proc[p].amount = pre.users[proc[p].userId].balance

\* Two requests ran concurrently (the second arrived while the first was
\* running) and both have answered.
PairDone == pre.begun = 2 /\ Done(1) /\ Done(2)

\* Both requests of the pair are op calls of the same registered student.
BothOf(op) ==
    /\ proc[1].op = op /\ proc[2].op = op
    /\ proc[1].userId = proc[2].userId
    /\ pre.users[proc[1].userId].exists

\* C15: two concurrent operations on one account end as some serial order
\* of the two would: two concurrent uploads of positive amounts are both
\* in the final balance, and two concurrent withdrawals of the whole
\* (positive) balance do not both succeed.
C15_NoLostUpdate ==
    PairDone =>
        /\ (BothOf("upload") /\ proc[1].amount > 0 /\ proc[2].amount > 0)
           => users[proc[1].userId].balance
                 = pre.users[proc[1].userId].balance
                      + proc[1].amount + proc[2].amount
        /\ (/\ BothOf("withdraw")
            /\ pre.users[proc[1].userId].balance > 0
            /\ proc[1].amount = pre.users[proc[1].userId].balance
            /\ proc[2].amount = pre.users[proc[1].userId].balance)
           => ~(/\ proc[1].res \in SuccessMessages
                /\ proc[2].res \in SuccessMessages)

\* p is a QR settle call, alone on the server, that found its request in
\* progress; the request and the caller each supply a positive amount or
\* none (0: the field is left out).
QrSettleReached(p) ==
    /\ Solo(p) /\ Done(p) /\ proc[p].op = "qr"
    /\ proc[p].res # "Transaction not found or already completed"
    /\ qrRequests[proc[p].id].amount >= 0
    /\ proc[p].amount >= 0

\* The request or the caller supplies an amount.  (Once the checks have
\* passed, proc[p].amount is the amount in effect.)
AmountSupplied(p) ==
    qrRequests[proc[p].id].amount # 0 \/ proc[p].amount # 0

AccountNotFound ==
    {"Recipient not found", "User not found", "Student not found",
     "Merchant not found"}

\* The payer or the payee of p's request resolved to no account when the
\* request arrived (for a settle call: the request itself was found and
\* open, the password right).
Unresolved(p) ==
    /\ proc[p].op \in {"send", "withdraw", "upload", "qr", "pay"}
    /\ proc[p].res \notin {"Transaction not found or already completed",
                           "Payment not found", "Payment already processed",
                           "Invalid password"}
    /\ \/ ~pre.users[proc[p].userId].exists
       \/ proc[p].op = "send" /\ ~pre.users[proc[p].to].exists

\* C17: a send, settle, withdraw or upload whose payer or payee resolves
\* to no account answers that the account was not found and changes no
\* balance and no transaction.
C17_UnknownAccountRejected ==
    \A p \in Procs :
        (Solo(p) /\ Done(p) /\ Unresolved(p))
        => /\ proc[p].res \in AccountNotFound
           /\ NothingMoved

\* p is a settle call that has answered success.
SettleSucceeded(p) ==
    /\ Done(p)
    /\ proc[p].op \in {"qr", "pay"}
    /\ proc[p].res \in SuccessMessages

\* C18: whenever a settle call has answered success, the status of its
\* request has been stored as completed.
C18_CompletedBeforeSuccess ==
    \A p \in Procs :
        SettleSucceeded(p)
        => IF proc[p].op = "qr"
           THEN qrRequests[proc[p].id].status = "completed"
           ELSE pendingPayments[proc[p].id].status = "completed"

C18_Witness ==
    \E p \in Procs : SettleSucceeded(p) /\ proc[p].op = "pay"

\* The handlers that move money.
MoneyOps == {"send", "withdraw", "upload", "qr", "pay"}

\* The step is one of a money-movement handler.
MoneyStep ==
    \E p \in Procs :
        /\ proc[p].op \in MoneyOps
        /\ proc'[p].op = proc[p].op
        /\ proc'[p].pc # proc[p].pc

\* Some stored balance differs after the step.
BalanceChanged ==
    \/ \E s \in StudentNumbers : users'[s].balance # users[s].balance
    \/ \E m \in MerchantNumbers : merchants'[m].balance # merchants[m].balance

\* C19: every step leaves the transactions as they were or appends one
\* transaction to them, and a step that appends a transaction or changes
\* a balance is a step of send, withdraw, upload or settle: registration,
\* login, the balance and history queries and the creation of a request
\* do neither.
C19_LedgerAppendOnly ==
    [][/\ \/ transactions' = transactions
          \/ /\ Len(transactions') = Len(transactions) + 1
             /\ SubSeq(transactions', 1, Len(transactions)) = transactions
       /\ (transactions' # transactions \/ BalanceChanged) => MoneyStep]_vars

\* A registration has succeeded and a transaction has been appended since
\* the start.
C19_Witness ==
    /\ \E p \in Procs : Done(p) /\ proc[p].res = "User registered successfully"
    /\ Len(transactions) > 1

\* The answers that say the identifier is taken.
DuplicateAccount ==
    {"User already exists", "User with this student number already exists",
     "Merchant with this ID already exists"}

\* p's registration looks its identifier up in this step and the
\* identifier is registered.
RegisterLookupFinds(p) ==
    \/ /\ proc[p].pc = "register_findUser"
       /\ proc'[p].pc # "register_findUser"
       /\ users[proc[p].userId].exists
    \/ /\ proc[p].pc = "register_findMerchant"
       /\ proc'[p].pc # "register_findMerchant"
       /\ merchants[proc[p].userId].exists

\* C20: a registration whose identifier is already registered is answered
\* as a duplicate and stores nothing, and however registrations
\* interleave no student number and no merchant id is ever stored twice.
C20_IdentifiersUnique ==
    [][/\ \A p \in Procs :
             RegisterLookupFinds(p)
             => /\ proc'[p].pc = "done"
                /\ proc'[p].res \in DuplicateAccount
                /\ UNCHANGED db
       /\ \A s \in StudentNumbers : users'[s].docs <= 1
       /\ \A m \in MerchantNumbers : merchants'[m].docs <= 1]_vars

\* Two registrations of one new student number ran concurrently: one
\* created the account, the other was refused.
C20_Witness ==
    /\ PairDone
    /\ proc[1].op = "register" /\ proc[2].op = "register"
    /\ proc[1].userId = proc[2].userId
    /\ {proc[1].res, proc[2].res}
          = {"User registered successfully", "Error registering user"}

\* The positions of the transactions that name id as their payer or payee.
Naming(id) ==
    {j \in DOMAIN transactions :
        transactions[j].from = id \/ transactions[j].to = id}

\* rows holds exactly the transactions at the positions J, each once, the
\* latest first: the k-th oldest of them is the k-th row from the end.
NewestFirst(rows, J) ==
    /\ Len(rows) = Cardinality(J)
    /\ \A j \in J :
          rows[Len(rows) + 1 - Cardinality({k \in J : k <= j})] = transactions[j]

\* p's history query reads the transactions in this step.
HistoryRead(p) ==
    /\ proc[p].pc \in {"history_findTransactions",
                       "merchant_history_findTransactions"}
    /\ proc'[p].pc = "done"

\* C21: a history query answers with exactly the transactions that name
\* the caller (student number or merchant id) as payer or payee, each once,
\* from the latest to the earliest, and changes no collection.
C21_HistoryNewestFirst ==
    [][\A p \in Procs :
          HistoryRead(p)
          => /\ NewestFirst(proc'[p].rows, Naming(proc[p].userId))
             /\ UNCHANGED db]_vars

\* A student's query has answered with two transactions or more.
C21_Witness ==
    \E p \in Procs :
        /\ Done(p) /\ proc[p].op = "history"
        /\ proc[p].res = "transactions"
        /\ Len(proc[p].rows) >= 2

\* The sum of the amounts of the first n transactions that are paid to id,
\* minus the sum of those that are paid by id.
RECURSIVE Net(_, _)
Net(id, n) ==
    IF n = 0 THEN 0
    ELSE Net(id, n - 1)
            + (IF transactions[n].to = id THEN transactions[n].amount ELSE 0)
            - (IF transactions[n].from = id THEN transactions[n].amount ELSE 0)

\* C22: whenever no handler is running, the balance of every student and
\* of every merchant is what the transactions account for: the amounts
\* paid to it minus the amounts paid by it.
C22_LedgerExplainsBalances ==
    Quiet =>
        /\ \A s \in StudentNumbers :
              users[s].balance = Net(s, Len(transactions))
        /\ \A m \in MerchantNumbers :
              merchants[m].balance = Net(m, Len(transactions))

\* p is a transfer of a positive amount, alone on the server, that has
\* answered success and whose payer is its own payee: a send to oneself,
\* or the settlement of one's own QR request.
SelfTransfer(p) ==
    /\ Solo(p) /\ Done(p)
    /\ proc[p].op \in {"send", "qr"}
    /\ proc[p].res \in SuccessMessages
    /\ proc[p].to = proc[p].userId
    /\ proc[p].amount > 0

\* C23: a transfer from an account to itself leaves the balance of the
\* account, and every other balance, as it was.
C23_SelfTransferKeepsBalance ==
    \A p \in Procs :
        SelfTransfer(p)
        => /\ users = pre.users
           /\ merchants = pre.merchants

\* p is a QR settle call, alone on the server, that has answered success.
QrSettled(p) ==
    /\ Solo(p) /\ Done(p) /\ proc[p].op = "qr"
    /\ proc[p].res = "Transaction completed successfully"

\* C24: a successful QR settle moves the amount of the request when the
\* request carries one, whatever amount the caller sent, and the caller's
\* amount only when the request carries none: that amount is credited to
\* the beneficiary, debited from the payer (when the payer is another
\* account) and recorded in the one transaction appended.
C24_RequestAmountPrevails ==
    \A p \in Procs :
        QrSettled(p)
        => LET A == proc[p].userId
               B == proc[p].to
               r == qrRequests[proc[p].id].amount
               m == IF r # 0 THEN r ELSE proc[p].body
           IN /\ users[B].balance = pre.users[B].balance + m
              /\ A # B => users[A].balance = pre.users[A].balance - m
              /\ Len(transactions) = pre.n + 1
              /\ transactions[pre.n + 1] = Transaction(A, B, m, "send")

\* A request that carries an amount has been settled by a caller who sent
\* another amount.
C24_Witness ==
    \E p \in Procs :
        /\ QrSettled(p)
        /\ qrRequests[proc[p].id].amount # 0
        /\ proc[p].body # 0
        /\ proc[p].body # qrRequests[proc[p].id].amount

====
